---- MODULE Spec2Model ----
(***************************************************************************)
(* ezb2: a typed promise-based wrapper for the Backblaze B2 HTTP API.      *)
(*                                                                         *)
(*   B2        (src/b2.ts)         the session client: authorize stores    *)
(*                                 the session, every other method sends   *)
(*                                 one HTTP request                        *)
(*   B2Bucket  (src/b2-bucket.ts)  the bucket-scoped facade over a B2      *)
(*   util      (src/util.ts)       getUrlEncodedFilename and sha1          *)
(*                                                                         *)
(* A method call is one step (everything the method does before it         *)
(* returns its promise); the continuation that runs when the HTTP response *)
(* arrives is another step.  The HTTP server is the environment.           *)
(***************************************************************************)
EXTENDS Integers, Sequences, FiniteSets, Bags, TLC

VARIABLES
    heap,        \* the B2 objects: heap[r] holds the fields of the B2 at reference r
    bucket,      \* the B2Bucket object: its fields bucketId and b2 (a reference)
    granted,     \* history: per B2, the authorize call whose response was stored last
    authCalls,   \* the authorize calls (of B2 or of B2Bucket) awaiting their response
    authResult,  \* the authorize call that settled last, and how
    opCall,      \* the latest call of any other method: in flight, or settled
    srv,         \* the large-file state of the checking server
    flow         \* the caller that drives the large-file sequence

vars == <<heap, bucket, granted, authCalls, authResult, opCall, srv, flow>>
clientVars == <<heap, bucket, granted, authCalls, authResult, opCall>>
envVars == <<srv, flow>>

-----------------------------------------------------------------------------
(* Bounds of the model.                                                    *)

\* authorize calls that may await their response at the same time
MaxAuthInFlight == 2
\* the longest payload, in bytes
MaxLen == 1
\* the largest number of parts of a large file
MaxParts == 2

-----------------------------------------------------------------------------
(* JavaScript values.                                                      *)

Undefined == "undefined"

\* what `!v` and `v || w` test: undefined and the empty string are falsy
Falsy(v) == v = Undefined \/ v = ""

\* `{ ...a, ...b }`: the properties of b override those of a
Spread(a, b) == [k \in DOMAIN a \cup DOMAIN b |-> IF k \in DOMAIN b THEN b[k] ELSE a[k]]

-----------------------------------------------------------------------------
(* util.ts                                                                 *)

\* encodeURIComponent on one character, for the characters of the file names used
EncodeChar(c) ==
    CASE c = " " -> "%20"
      [] c = "#" -> "%23"
      [] c = "/" -> "%2F"
      [] c = "%" -> "%25"
      [] OTHER -> c

RECURSIVE encodeURIComponent(_)
encodeURIComponent(seg) ==
    IF seg = <<>> THEN "" ELSE EncodeChar(Head(seg)) \o encodeURIComponent(Tail(seg))

\* filename.split("/"): a file name is a sequence of characters
RECURSIVE SplitSlash(_, _)
SplitSlash(name, cur) ==
    IF name = <<>> THEN <<cur>>
    ELSE IF Head(name) = "/" THEN <<cur>> \o SplitSlash(Tail(name), <<>>)
    ELSE SplitSlash(Tail(name), Append(cur, Head(name)))

\* segments.join("/")
RECURSIVE JoinSlash(_)
JoinSlash(segs) ==
    IF Len(segs) = 1 THEN segs[1] ELSE segs[1] \o "/" \o JoinSlash(Tail(segs))

getUrlEncodedFilename(filename) ==
    LET segs == SplitSlash(filename, <<>>)
    IN JoinSlash([i \in 1..Len(segs) |-> encodeURIComponent(segs[i])])

-----------------------------------------------------------------------------
(* sha1: createHash("sha1").update(data).digest("hex"), on byte sequences  *)
(* of fewer than 56 bytes (one block).  A 32-bit word is a pair <<hi, lo>> *)
(* of 16-bit halves.                                                       *)

RECURSIVE Pow2(_)
Pow2(n) == IF n = 0 THEN 1 ELSE 2 * Pow2(n - 1)

RECURSIVE Xor16(_, _)
Xor16(a, b) == IF a = 0 /\ b = 0 THEN 0 ELSE ((a + b) % 2) + 2 * Xor16(a \div 2, b \div 2)

RECURSIVE And16(_, _)
And16(a, b) == IF a = 0 \/ b = 0 THEN 0 ELSE ((a % 2) * (b % 2)) + 2 * And16(a \div 2, b \div 2)

Xor(a, b) == <<Xor16(a[1], b[1]), Xor16(a[2], b[2])>>
And(a, b) == <<And16(a[1], b[1]), And16(a[2], b[2])>>
Not(a) == <<65535 - a[1], 65535 - a[2]>>
Or(a, b) == Not(And(Not(a), Not(b)))

RotlSmall(a, n) ==
    <<(a[1] % Pow2(16 - n)) * Pow2(n) + (a[2] \div Pow2(16 - n)),
      (a[2] % Pow2(16 - n)) * Pow2(n) + (a[1] \div Pow2(16 - n))>>

Rotl(a, n) == IF n < 16 THEN RotlSmall(a, n) ELSE RotlSmall(<<a[2], a[1]>>, n - 16)

Add(a, b) ==
    LET lo == a[2] + b[2]
        hi == a[1] + b[1] + (lo \div 65536)
    IN <<hi % 65536, lo % 65536>>

\* 67452301 efcdab89 98badcfe 10325476 c3d2e1f0
H0 == << <<26437, 8961>>, <<61389, 43913>>, <<39098, 56574>>, <<4146, 21622>>, <<50130, 57840>> >>

\* 5a827999 6ed9eba1 8f1bbcdc ca62c1d6
Kt(t) ==
    IF t < 20 THEN <<23170, 31129>>
    ELSE IF t < 40 THEN <<28377, 60321>>
    ELSE IF t < 60 THEN <<36635, 48348>>
    ELSE <<51810, 49622>>

Ft(t, b, c, d) ==
    IF t < 20 THEN Or(And(b, c), And(Not(b), d))
    ELSE IF t < 40 THEN Xor(Xor(b, c), d)
    ELSE IF t < 60 THEN Or(Or(And(b, c), And(b, d)), And(c, d))
    ELSE Xor(Xor(b, c), d)

\* byte i (from 1) of the padded block: the data, 0x80, zeros, the bit length
PadByte(data, i) ==
    IF i <= Len(data) THEN data[i]
    ELSE IF i = Len(data) + 1 THEN 128
    ELSE IF i = 64 THEN (8 * Len(data)) % 256
    ELSE IF i = 63 THEN (8 * Len(data)) \div 256
    ELSE 0

BlockWord(d, t) ==
    <<PadByte(d, 4*t+1) * 256 + PadByte(d, 4*t+2), PadByte(d, 4*t+3) * 256 + PadByte(d, 4*t+4)>>

RECURSIVE Block(_, _, _)
Block(d, t, w) == IF t = 16 THEN w ELSE Block(d, t + 1, Append(w, BlockWord(d, t)))

\* w[t+1] is the message-schedule word W_t.  (The test nw = nw makes the
\* evaluation of nw happen before the recursive call.)
RECURSIVE Schedule(_, _, _)
Schedule(w, t, stop) ==
    IF t = stop THEN w
    ELSE LET nw == Append(w, Rotl(Xor(Xor(w[t-2], w[t-7]), Xor(w[t-13], w[t-15])), 1))
         IN IF nw = nw THEN Schedule(nw, t + 1, stop) ELSE <<>>

RECURSIVE Rounds(_, _, _, _)
Rounds(w, t, stop, s) ==
    IF t = stop THEN s
    ELSE LET tmp == Add(Add(Add(Add(Rotl(s[1], 5), Ft(t, s[2], s[3], s[4])), s[5]), Kt(t)), w[t+1])
             ns == <<tmp, s[1], Rotl(s[2], 30), s[3], s[4]>>
         IN IF ns = ns THEN Rounds(w, t + 1, stop, ns) ELSE <<>>

\* Op applied to rounds t .. stop-1, eight rounds at a time
RECURSIVE Staged(_, _, _, _)
Staged(Op(_, _, _), v, t, stop) ==
    IF t >= stop THEN v
    ELSE LET nv == Op(v, t, t + 8) IN IF nv = nv THEN Staged(Op, nv, t + 8, stop) ELSE <<>>

HexDigit(n) ==
    CASE n = 0 -> "0" [] n = 1 -> "1" [] n = 2 -> "2" [] n = 3 -> "3"
      [] n = 4 -> "4" [] n = 5 -> "5" [] n = 6 -> "6" [] n = 7 -> "7"
      [] n = 8 -> "8" [] n = 9 -> "9" [] n = 10 -> "a" [] n = 11 -> "b"
      [] n = 12 -> "c" [] n = 13 -> "d" [] n = 14 -> "e" [] n = 15 -> "f"

Hex16(n) ==
    HexDigit(n \div 4096) \o HexDigit((n \div 256) % 16) \o HexDigit((n \div 16) % 16) \o HexDigit(n % 16)

HexWord(w) == Hex16(w[1]) \o Hex16(w[2])

Sha1Hex(data) ==
    LET SchedStage(v, t, e) == Schedule(v, t, e)
        w == Staged(SchedStage, Block(data, 0, <<>>), 16, 80)
        RoundStage(v, t, e) == Rounds(w, t, e, v)
        s == Staged(RoundStage, H0, 0, 80)
    IN HexWord(Add(H0[1], s[1])) \o HexWord(Add(H0[2], s[2])) \o HexWord(Add(H0[3], s[3]))
        \o HexWord(Add(H0[4], s[4])) \o HexWord(Add(H0[5], s[5]))

\* the byte values payloads are made of, and the payloads (Buffers) of the model
Bytes == {0, 97}
Payloads == UNION {[1..n -> Bytes] : n \in 0..MaxLen}

\* the digests of the payloads, computed once
Sha1Table == {<<d, Sha1Hex(d)>> : d \in Payloads}

\* the SHA-1 digest of a payload, in hex
Sha1Digest(data) == (CHOOSE p \in Sha1Table : p[1] = data)[2]

\* (a variant that digests before the data is fed in)
sha1OfNothing(data) == Sha1Digest(<<>>)

\* createHash("sha1").update(data).digest("hex")
sha1(data) == Sha1Digest(data)

-----------------------------------------------------------------------------
(* axios, as far as the code uses it.  A request records the instance it   *)
(* was sent on, that instance's base URL and the headers it carries.       *)
(* (The progress callbacks are handed to axios untouched and are left out.)*)

\* a field `axios!: AxiosInstance` that was never assigned
NoAxios == [created |-> FALSE, baseURL |-> Undefined, headers |-> [Authorization |-> Undefined]]

\* axios.create({ baseURL, headers })
AxiosCreate(config) == [created |-> TRUE, baseURL |-> config.baseURL, headers |-> config.headers]

NoRequest == [transport |-> "none"]
NoOptions == [maxRedirects |-> Undefined, responseType |-> Undefined]

\* axios.get(url, config) and axios.post(url, data, config) on the imported
\* global axios: no base URL, only the headers of the call
GlobalRequest(method, url, data, headers, options) ==
    [transport |-> "global", method |-> method, baseURL |-> Undefined, url |-> url,
     headers |-> headers, data |-> data, options |-> options]

\* ax.get(url, config) and ax.post(url, data) on a created instance: its base
\* URL and its default headers
InstanceRequest(ax, method, url, data, options) ==
    [transport |-> "instance", method |-> method, baseURL |-> ax.baseURL, url |-> url,
     headers |-> ax.headers, data |-> data, options |-> options]

\* new Buffer(s).toString("base64"), for the credential strings of the model
Base64(s) ==
    CASE s = "keyId1:K1" -> "a2V5SWQxOksx"
      [] s = "keyId2:K2" -> "a2V5SWQyOksy"
      [] s = "keyId3:K3" -> "a2V5SWQzOksz"

-----------------------------------------------------------------------------
(* class B2                                                                *)

API_VERSION_URL == "/b2api/v1"
API_AUTHORIZE_URL == "https://api.backblaze.com" \o API_VERSION_URL \o "/b2_authorize_account"

\* references to B2 objects: the caller's own B2, and those a B2Bucket creates
Client == 0
NoRef == -1
BucketRefs == 1 .. (MaxAuthInFlight + 1)
Refs == {Client} \cup BucketRefs

\* new B2(): the fields are declared and not assigned
NewB2 == [axios |-> NoAxios, accountId |-> Undefined, downloadUrl |-> Undefined]

\* what a method call does before it returns: it throws, or it sends one
\* request and returns the promise of its response.  self is the B2 whose
\* method sent it; args is the parameter object the B2 method was given.
Throws(error) ==
    [throws |-> TRUE, error |-> error, req |-> NoRequest, self |-> NoRef, args |-> [none |-> TRUE], calls |-> 0]
Sends(self, args, req) ==
    [throws |-> FALSE, error |-> Undefined, req |-> req, self |-> self, args |-> args, calls |-> 1]

\* authorize, up to its await: the GET of the authorization endpoint
AuthorizeRequest(accountId, applicationKey) ==
    GlobalRequest("GET", API_AUTHORIZE_URL, Undefined,
                  [Authorization |-> "Basic " \o Base64(accountId \o ":" \o applicationKey)],
                  NoOptions)

\* (a variant that keeps a download URL once it is set)
AuthorizeStoreKeepsDownloadUrl(this, accountId, data) ==
    [this EXCEPT
        !.accountId = accountId,
        !.axios = AxiosCreate([baseURL |-> data.apiUrl \o API_VERSION_URL,
                               headers |-> [Authorization |-> data.authorizationToken]]),
        !.downloadUrl = IF this.downloadUrl = Undefined THEN data.downloadUrl ELSE this.downloadUrl]

\* authorize, after its await: the three assignments, made in one go
AuthorizeStore(this, accountId, data) ==
    [this EXCEPT
        !.accountId = accountId,
        !.axios = AxiosCreate([baseURL |-> data.apiUrl \o API_VERSION_URL,
                               headers |-> [Authorization |-> data.authorizationToken]]),
        !.downloadUrl = data.downloadUrl]

\* (a variant in which the field is never found unassigned)
SessionTransportAlwaysReady(this) == TRUE

\* `this.axios.post(url, data)` / `this.axios.get(url, config)`: reading a
\* property of the unassigned field throws a TypeError before anything is sent
SessionTransportReady(this) == this.axios.created

OnSession(self, method, url, args, data, options) ==
    IF SessionTransportReady(heap[self])
    THEN Sends(self, args, InstanceRequest(heap[self].axios, method, url, data, options))
    ELSE [Throws("TypeError") EXCEPT !.self = self, !.calls = 1]

OnSessionPost(self, url, data) == OnSession(self, "POST", url, data, data, NoOptions)

B2_createBucket(self, bucketName, bucketType) ==
    OnSessionPost(self, "/b2_create_bucket",
                  [accountId |-> heap[self].accountId, bucketName |-> bucketName, bucketType |-> bucketType])

B2_deleteBucket(self, bucketId) ==
    OnSessionPost(self, "/b2_delete_bucket", [accountId |-> heap[self].accountId, bucketId |-> bucketId])

B2_listBuckets(self) ==
    OnSessionPost(self, "/b2_list_buckets", [accountId |-> heap[self].accountId])

B2_updateBucket(self, bucketId, bucketType) ==
    OnSessionPost(self, "/b2_update_bucket",
                  [accountId |-> heap[self].accountId, bucketId |-> bucketId, bucketType |-> bucketType])

B2_getUploadUrl(self, data) == OnSessionPost(self, "/b2_get_upload_url", data)

\* `a || b`
OrElse(a, b) == IF Falsy(a) THEN b ELSE a

\* (a variant that always hashes the payload)
UploadFileHeadersIgnoringHash(opts) ==
    [Authorization |-> opts.uploadAuthToken,
     ContentType |-> OrElse(opts.mime, "b2/x-auto"),
     ContentLength |-> Len(opts.data),
     XBzFileName |-> getUrlEncodedFilename(opts.filename),
     XBzContentSha1 |-> sha1(opts.data)]

UploadFileHeaders(opts) ==
    [Authorization |-> opts.uploadAuthToken,
     ContentType |-> OrElse(opts.mime, "b2/x-auto"),
     ContentLength |-> Len(opts.data),
     XBzFileName |-> getUrlEncodedFilename(opts.filename),
     XBzContentSha1 |-> OrElse(opts.hash, sha1(opts.data))]

UploadOptions == [maxRedirects |-> 0, responseType |-> Undefined]

\* (a variant that posts on the instance of the session)
UploadFileRequestOnSession(this, opts) ==
    InstanceRequest(this.axios, "POST", opts.uploadUrl, opts.data, UploadOptions)

\* uploadFile uses the global axios, not this.axios
UploadFileRequest(this, opts) ==
    GlobalRequest("POST", opts.uploadUrl, opts.data, UploadFileHeaders(opts), UploadOptions)

B2_uploadFile(self, opts) == Sends(self, opts, UploadFileRequest(heap[self], opts))

B2_listFileNames(self, data) == OnSessionPost(self, "/b2_list_file_names", data)
B2_listFileVersions(self, data) == OnSessionPost(self, "/b2_list_file_versions", data)
B2_hideFile(self, data) == OnSessionPost(self, "/b2_hide_file", data)
B2_getFileInfo(self, data) == OnSessionPost(self, "/b2_get_file_info", data)
B2_deleteFileVersion(self, data) == OnSessionPost(self, "/b2_delete_file_version", data)
B2_getDownloadAuthorization(self, data) == OnSessionPost(self, "/b2_get_download_authorization", data)

B2_downloadFileByName(self, opts) ==
    OnSession(self, "GET",
              heap[self].downloadUrl \o "/file/" \o opts.bucketName \o "/" \o getUrlEncodedFilename(opts.fileName),
              opts, Undefined, [maxRedirects |-> Undefined, responseType |-> opts.responseType])

B2_downloadFileById(self, opts) ==
    OnSession(self, "GET",
              heap[self].downloadUrl \o API_VERSION_URL \o "/b2_download_file_by_id?fileId=" \o opts.fileId,
              opts, Undefined, [maxRedirects |-> Undefined, responseType |-> opts.responseType])

\* contentType = "b2/x-auto" when the property is missing
B2_startLargeFile(self, opts) ==
    OnSession(self, "POST", "/b2_start_large_file", opts,
              [bucketId |-> opts.bucketId, fileName |-> opts.fileName,
               contentType |-> IF "contentType" \in DOMAIN opts /\ opts.contentType # Undefined
                               THEN opts.contentType ELSE "b2/x-auto"],
              NoOptions)

B2_getUploadPartUrl(self, data) == OnSessionPost(self, "/b2_get_upload_part_url", data)

UploadPartHeaders(opts) ==
    [Authorization |-> opts.uploadAuthToken,
     ContentLength |-> Len(opts.data),
     XBzPartNumber |-> opts.partNumber,
     XBzContentSha1 |-> sha1(opts.data)]

UploadPartRequest(this, opts) ==
    GlobalRequest("POST", opts.uploadUrl, opts.data, UploadPartHeaders(opts), UploadOptions)

B2_uploadPart(self, opts) == Sends(self, opts, UploadPartRequest(heap[self], opts))

B2_finishLargeFile(self, data) == OnSessionPost(self, "/b2_finish_large_file", data)
B2_cancelLargeFile(self, data) == OnSessionPost(self, "/b2_cancel_large_file", data)

-----------------------------------------------------------------------------
(* class B2Bucket: every method forwards to this.b2; reading a property of *)
(* the unassigned field this.b2 throws a TypeError.                        *)

HasB2 == bucket.b2 # NoRef

\* (a variant that only compares the two ids)
AllowedDiffers(allowedBucketId, bucketId) == allowedBucketId # bucketId

\* the test of authorize on the allowed bucket the server reported
AllowedMismatch(allowedBucketId, bucketId) ==
    Falsy(allowedBucketId) \/ allowedBucketId # bucketId

MismatchError(allowedBucketId) ==
    "Allowed bucket does not match provided bucket id! Bucket id returned: " \o allowedBucketId

B2Bucket_getUploadUrl ==
    IF HasB2 THEN B2_getUploadUrl(bucket.b2, [bucketId |-> bucket.bucketId]) ELSE Throws("TypeError")

B2Bucket_uploadFile(opts) ==
    IF HasB2 THEN B2_uploadFile(bucket.b2, opts) ELSE Throws("TypeError")

\* upload, after its await: `this.uploadFile({ uploadUrl, uploadAuthToken, ...opts })`
UploadWithTicket(ticket, opts) ==
    B2Bucket_uploadFile(Spread([uploadUrl |-> ticket.uploadUrl,
                                uploadAuthToken |-> ticket.authorizationToken], opts))

B2Bucket_listFileNames(opts) ==
    IF HasB2 THEN B2_listFileNames(bucket.b2, Spread([bucketId |-> bucket.bucketId], opts))
    ELSE Throws("TypeError")

B2Bucket_listFileVersions(opts) ==
    IF HasB2 THEN B2_listFileVersions(bucket.b2, Spread([bucketId |-> bucket.bucketId], opts))
    ELSE Throws("TypeError")

B2Bucket_hideFile(opts) ==
    IF HasB2 THEN B2_hideFile(bucket.b2, Spread([bucketId |-> bucket.bucketId], opts))
    ELSE Throws("TypeError")

B2Bucket_getFileInfo(opts) ==
    IF HasB2 THEN B2_getFileInfo(bucket.b2, opts) ELSE Throws("TypeError")

B2Bucket_deleteFileVersion(opts) ==
    IF HasB2 THEN B2_deleteFileVersion(bucket.b2, opts) ELSE Throws("TypeError")

B2Bucket_getDownloadAuthorization(opts) ==
    IF HasB2 THEN B2_getDownloadAuthorization(bucket.b2, Spread([bucketId |-> bucket.bucketId], opts))
    ELSE Throws("TypeError")

B2Bucket_downloadFileByName(opts) ==
    IF HasB2 THEN B2_downloadFileByName(bucket.b2, opts) ELSE Throws("TypeError")

B2Bucket_downloadFileById(opts) ==
    IF HasB2 THEN B2_downloadFileById(bucket.b2, opts) ELSE Throws("TypeError")

B2Bucket_startLargeFile(opts) ==
    IF HasB2 THEN B2_startLargeFile(bucket.b2, Spread([bucketId |-> bucket.bucketId], opts))
    ELSE Throws("TypeError")

B2Bucket_getUploadPartUrl(opts) ==
    IF HasB2 THEN B2_getUploadPartUrl(bucket.b2, opts) ELSE Throws("TypeError")

B2Bucket_uploadPart(opts) ==
    IF HasB2 THEN B2_uploadPart(bucket.b2, opts) ELSE Throws("TypeError")

B2Bucket_finishLargeFile(opts) ==
    IF HasB2 THEN B2_finishLargeFile(bucket.b2, opts) ELSE Throws("TypeError")

B2Bucket_cancelLargeFile(opts) ==
    IF HasB2 THEN B2_cancelLargeFile(bucket.b2, opts) ELSE Throws("TypeError")

-----------------------------------------------------------------------------
(* The state after construction: a B2 and a B2Bucket, nothing called yet.  *)

NoData == [none |-> TRUE]
NoResponse == [kind |-> "none", data |-> NoData, error |-> Undefined]
OkResponse(data) == [kind |-> "ok", data |-> data, error |-> Undefined]
ErrorResponse(error) == [kind |-> "error", data |-> NoData, error |-> error]

NoGrant == [kind |-> "none", accountId |-> Undefined, data |-> NoData]

NoAuthResult ==
    [via |-> "none", self |-> NoRef, accountId |-> Undefined, applicationKey |-> Undefined,
     bucketId |-> Undefined, response |-> NoResponse, status |-> "none",
     value |-> NoData, error |-> Undefined, hadSession |-> FALSE]

IdleCall ==
    [via |-> "none", op |-> "none", status |-> "idle", stage |-> 0, self |-> NoRef,
     authed |-> FALSE, cfgBucket |-> Undefined, args |-> NoData, opts |-> NoData,
     req |-> NoRequest, nreq |-> 0, calls |-> 0, response |-> NoResponse,
     value |-> NoData, error |-> Undefined]

NoServer == [state |-> "off"]
NoFlow == [pc |-> "off"]

ClientInit ==
    /\ heap = [r \in Refs |-> NewB2]
    /\ bucket = [bucketId |-> Undefined, b2 |-> NoRef]
    /\ granted = [r \in Refs |-> NoGrant]
    /\ authCalls = EmptyBag
    /\ authResult = NoAuthResult
    /\ opCall = IdleCall

Init == ClientInit /\ srv = NoServer /\ flow = NoFlow

-----------------------------------------------------------------------------
(* authorize                                                               *)

AuthCall(via, self, accountId, applicationKey, bucketId) ==
    [via |-> via, self |-> self, accountId |-> accountId, applicationKey |-> applicationKey,
     bucketId |-> bucketId, req |-> AuthorizeRequest(accountId, applicationKey), nreq |-> 1]

Awaiting(r) == \E c \in BagToSet(authCalls) : c.self = r

\* B2.authorize(accountId, applicationKey), up to `await axios.get(...)`
B2_authorize(self, accountId, applicationKey) ==
    /\ BagCardinality(authCalls) < MaxAuthInFlight
    /\ authCalls' = authCalls (+) SetToBag({AuthCall("b2", self, accountId, applicationKey, Undefined)})
    /\ UNCHANGED <<heap, bucket, granted, authResult, opCall>>

\* (a variant that drops the session when the request rejects)
AuthorizeFailedClears(this) == NewB2

\* when the request rejects, the await throws and the assignments are not reached
AuthorizeFailed(this) == this

AuthResultOf(c, res, status, value, error) ==
    [via |-> c.via, self |-> c.self, accountId |-> c.accountId, applicationKey |-> c.applicationKey,
     bucketId |-> c.bucketId, response |-> res, status |-> status, value |-> value,
     error |-> error, hadSession |-> heap[c.self].axios.created]

\* B2.authorize, from the response on: store the session and return res.data
B2_authorize_response(c, res) ==
    /\ c \in BagToSet(authCalls)
    /\ c.via = "b2"
    /\ authCalls' = authCalls (-) SetToBag({c})
    /\ IF res.kind = "ok"
       THEN /\ heap' = [heap EXCEPT ![c.self] = AuthorizeStore(@, c.accountId, res.data)]
            /\ granted' = [granted EXCEPT ![c.self] = [kind |-> "call", accountId |-> c.accountId, data |-> res.data]]
            /\ authResult' = AuthResultOf(c, res, "resolved", res.data, Undefined)
       ELSE /\ heap' = [heap EXCEPT ![c.self] = AuthorizeFailed(@)]
            /\ granted' = granted
            /\ authResult' = AuthResultOf(c, res, "rejected", NoData, res.error)
    /\ UNCHANGED <<bucket, opCall>>

\* The B2 objects no field and no awaiting call refers to are unreachable;
\* their references are reused, least first, by the next `new B2()`.
FreeRef(r, b2ref, calls) == r # b2ref /\ ~ \E c \in BagToSet(calls) : c.self = r
FreshRef == CHOOSE r \in BucketRefs :
                /\ FreeRef(r, bucket.b2, authCalls)
                /\ \A q \in BucketRefs : FreeRef(q, bucket.b2, authCalls) => r <= q
Collect(h, b2ref, calls) ==
    [r \in Refs |-> IF r \in BucketRefs /\ FreeRef(r, b2ref, calls) THEN NewB2 ELSE h[r]]
CollectGrants(g, b2ref, calls) ==
    [r \in Refs |-> IF r \in BucketRefs /\ FreeRef(r, b2ref, calls) THEN NoGrant ELSE g[r]]

\* B2Bucket.authorize({accountId, applicationKey, bucketId}), up to its await:
\* this.bucketId = bucketId; this.b2 = new B2(); this.b2.authorize(...)
B2Bucket_authorize(accountId, applicationKey, bucketId) ==
    /\ BagCardinality(authCalls) < MaxAuthInFlight
    /\ LET r == FreshRef
           calls == authCalls (+) SetToBag({AuthCall("bucket", r, accountId, applicationKey, bucketId)})
       IN /\ bucket' = [bucketId |-> bucketId, b2 |-> r]
          /\ authCalls' = calls
          /\ heap' = Collect([heap EXCEPT ![r] = NewB2], r, calls)
          /\ granted' = CollectGrants([granted EXCEPT ![r] = NoGrant], r, calls)
    /\ UNCHANGED <<authResult, opCall>>

\* B2Bucket.authorize, from the response on: the B2 it created stores the
\* session; then the allowed bucket is tested
B2Bucket_authorize_response(c, res) ==
    /\ c \in BagToSet(authCalls)
    /\ c.via = "bucket"
    /\ LET calls == authCalls (-) SetToBag({c})
           allowedBucketId == res.data.allowed.bucketId
       IN /\ authCalls' = calls
          /\ IF res.kind = "ok"
             THEN /\ heap' = Collect([heap EXCEPT ![c.self] = AuthorizeStore(@, c.accountId, res.data)],
                                     bucket.b2, calls)
                  /\ granted' = CollectGrants([granted EXCEPT ![c.self] =
                                    [kind |-> "call", accountId |-> c.accountId, data |-> res.data]],
                                    bucket.b2, calls)
                  /\ authResult' =
                        IF AllowedMismatch(allowedBucketId, c.bucketId)
                        THEN AuthResultOf(c, res, "rejected", NoData, MismatchError(allowedBucketId))
                        ELSE AuthResultOf(c, res, "resolved", res.data, Undefined)
             ELSE /\ heap' = Collect([heap EXCEPT ![c.self] = AuthorizeFailed(@)], bucket.b2, calls)
                  /\ granted' = CollectGrants(granted, bucket.b2, calls)
                  /\ authResult' = AuthResultOf(c, res, "rejected", NoData, res.error)
    /\ UNCHANGED <<bucket, opCall>>

-----------------------------------------------------------------------------
(* A call of any method but authorize, and the continuation on its         *)
(* response.  The caller awaits one such call at a time.                   *)

\* The method ran (result is what it did before returning).  A method
\* declared async turns a throw into a rejected promise.
Invoke(via, op, isAsync, result, opts) ==
    /\ opCall.status # "pending"
    /\ opCall' =
         [via |-> via, op |-> op,
          status |-> IF ~result.throws THEN "pending" ELSE IF isAsync THEN "rejected" ELSE "threw",
          stage |-> 1,
          self |-> result.self,
          authed |-> result.self # NoRef /\ granted[result.self].kind = "call",
          cfgBucket |-> IF via = "bucket" /\ ~result.throws THEN bucket.bucketId ELSE Undefined,
          args |-> result.args,
          opts |-> IF result.throws THEN NoData ELSE opts,
          req |-> result.req,
          nreq |-> IF result.throws THEN 0 ELSE 1,
          calls |-> result.calls,
          response |-> NoResponse,
          value |-> NoData,
          error |-> result.error]
    /\ UNCHANGED <<heap, bucket, granted, authCalls, authResult>>

Settled(call, status, res, value, error) ==
    [call EXCEPT !.status = status, !.response = res, !.value = value, !.error = error,
                 !.req = NoRequest, !.args = NoData, !.opts = NoData, !.cfgBucket = Undefined,
                 !.self = NoRef]

\* (a variant with a rejection handler that resolves with nothing)
OnRejectedSwallows(call, res) == Settled(call, "resolved", res, NoData, Undefined)

\* `.then(res => res.data)`: there is no rejection handler, the error of the
\* request is the error of the returned promise
OnRejected(call, res) == Settled(call, "rejected", res, NoData, res.error)

OnFulfilled(call, res) == Settled(call, "resolved", res, res.data, Undefined)

\* B2Bucket.upload after `await this.getUploadUrl()` resolved
UploadContinues(call, res) ==
    LET result == UploadWithTicket(res.data, call.opts)
    IN IF result.throws
       THEN [Settled(call, "rejected", res, NoData, result.error) EXCEPT !.calls = @ + result.calls]
       ELSE [call EXCEPT !.stage = 2, !.self = result.self, !.args = result.args,
                         !.req = result.req, !.nreq = @ + 1, !.calls = @ + result.calls]

\* B2Bucket.upload after `await this.getUploadUrl()` rejected: the await throws
UploadAborts(call, res) == OnRejected(call, res)

OpResponse(res) ==
    /\ opCall.status = "pending"
    /\ opCall' =
         IF opCall.op = "upload" /\ opCall.stage = 1
         THEN IF res.kind = "ok" THEN UploadContinues(opCall, res) ELSE UploadAborts(opCall, res)
         ELSE IF res.kind = "ok" THEN OnFulfilled(opCall, res) ELSE OnRejected(opCall, res)
    /\ UNCHANGED <<heap, bucket, granted, authCalls, authResult>>

-----------------------------------------------------------------------------
(* The server and the caller's inputs.                                     *)

Credentials ==
    {[accountId |-> "keyId1", applicationKey |-> "K1"],
     [accountId |-> "keyId2", applicationKey |-> "K2"],
     [accountId |-> "keyId3", applicationKey |-> "K3"]}

\* b2_authorize_account: the session the server grants to each key.  The
\* first key is restricted to bucket b1, the second is not restricted, the
\* third reports an empty bucket id.
AuthorizationResponse(authorization) ==
    CASE authorization = "Basic a2V5SWQxOksx" ->
            [apiUrl |-> "https://api001.backblazeb2.com", authorizationToken |-> "session-token-1",
             downloadUrl |-> "https://f001.backblazeb2.com", allowed |-> [bucketId |-> "b1"]]
      [] authorization = "Basic a2V5SWQyOksy" ->
            [apiUrl |-> "https://api002.backblazeb2.com", authorizationToken |-> "session-token-2",
             downloadUrl |-> "https://f002.backblazeb2.com", allowed |-> [bucketId |-> Undefined]]
      [] authorization = "Basic a2V5SWQzOksz" ->
            [apiUrl |-> "https://api003.backblazeb2.com", authorizationToken |-> "session-token-3",
             downloadUrl |-> "https://f003.backblazeb2.com", allowed |-> [bucketId |-> ""]]

\* the bucket a session token is allowed to use
AllowedOfToken(token) ==
    CASE token = "session-token-1" -> "b1"
      [] token = "session-token-2" -> Undefined
      [] token = "session-token-3" -> ""
      [] OTHER -> Undefined

Errors == {"Request failed with status code 401", "ECONNRESET"}

BucketIds == {"b1", "b2"}
BucketTypes == {"allPrivate", "allPublic"}
BucketNames == {"bucket-one", "bucket-two"}
\* the id of the bucket of each name
BucketIdOfName(name) == IF name = "bucket-one" THEN "b1" ELSE "b2"

FileIds == {"4_z1_f1", "4_z2_f2"}
FileNames == {<<"a">>, <<"a", " ", "b", "/", "c", "#", "d">>}
\* file names as the strings of a JSON body
FileNameStrings == {"a", "a b/c#d"}

\* b2_get_upload_url, b2_get_upload_part_url: the tickets the server hands out
Tickets ==
    {[uploadUrl |-> "https://pod-000-1.backblaze.com/upload/1", authorizationToken |-> "upload-token-1"],
     [uploadUrl |-> "https://pod-000-2.backblaze.com/upload/2", authorizationToken |-> "upload-token-2"]}

\* a hash the caller supplies: left out, empty, or forty hex digits
Hashes == {Undefined, "", "0123456789abcdef0123456789abcdef01234567"}

WithTicket(tickets, opts) ==
    {Spread([uploadUrl |-> t.uploadUrl, uploadAuthToken |-> t.authorizationToken], o) :
        t \in tickets, o \in opts}

\* the options of an upload: every payload with every hash, and one upload
\* with a mime type and a nested file name
UploadOpts ==
    [filename : {<<"a">>}, data : Payloads, mime : {Undefined}, hash : Hashes]
    \cup {[filename |-> <<"a", " ", "b", "/", "c", "#", "d">>, data |-> <<>>, mime |-> "text/plain", hash |-> Undefined]}

PartOpts == [partNumber : {1, 2}, data : Payloads]

GenericData == {[result |-> "ok"]}

\* what the server may answer to the request of a call
ServerData(call) ==
    IF call.op \in {"getUploadUrl", "getUploadPartUrl"} \/ (call.op = "upload" /\ call.stage = 1)
    THEN Tickets
    ELSE GenericData

Responses(call, errors) ==
    {OkResponse(d) : d \in ServerData(call)} \cup {ErrorResponse(e) : e \in errors}

AuthorizeResponses(c, errors) ==
    {OkResponse(AuthorizationResponse(c.req.headers.Authorization))} \cup {ErrorResponse(e) : e \in errors}

-----------------------------------------------------------------------------
(* Spec: a caller that uses a B2 directly.                                 *)

\* a call of a method of the caller's B2, the large-file server not involved
Call(via, op, isAsync, result, opts) == Invoke(via, op, isAsync, result, opts) /\ UNCHANGED envVars

ListData == {[bucketId |-> "b1"], [bucketId |-> "b2", prefix |-> "photos/", maxFileCount |-> 10]}
FileData == {[fileId |-> f] : f \in FileIds}
DownloadAuthData == {[bucketId |-> "b1", fileNamePrefix |-> "pets/", validDurationInSeconds |-> 604800]}

\* the keys the caller of a B2 authorizes with
SessionCredentials == {c \in Credentials : c.accountId \in {"keyId1", "keyId2"}}

SessionNext ==
    \/ \E c \in SessionCredentials : B2_authorize(Client, c.accountId, c.applicationKey) /\ UNCHANGED envVars
    \/ \E c \in BagToSet(authCalls) : \E res \in AuthorizeResponses(c, {"ECONNRESET"}) :
            B2_authorize_response(c, res) /\ UNCHANGED envVars
    \/ \E t \in BucketTypes :
            Call("b2", "createBucket", FALSE, B2_createBucket(Client, "bucket-one", t), NoData)
    \/ \E b \in BucketIds : Call("b2", "deleteBucket", FALSE, B2_deleteBucket(Client, b), NoData)
    \/ Call("b2", "listBuckets", FALSE, B2_listBuckets(Client), NoData)
    \/ \E t \in BucketTypes :
            Call("b2", "updateBucket", FALSE, B2_updateBucket(Client, "b1", t), NoData)
    \/ \E b \in BucketIds :
            Call("b2", "getUploadUrl", FALSE, B2_getUploadUrl(Client, [bucketId |-> b]), NoData)
    \/ \E o \in WithTicket(Tickets, UploadOpts) :
            Call("b2", "uploadFile", FALSE, B2_uploadFile(Client, o), NoData)
    \/ \E d \in ListData : Call("b2", "listFileNames", FALSE, B2_listFileNames(Client, d), NoData)
    \/ \E d \in ListData : Call("b2", "listFileVersions", FALSE, B2_listFileVersions(Client, d), NoData)
    \/ \E b \in BucketIds :
            Call("b2", "hideFile", FALSE, B2_hideFile(Client, [bucketId |-> b, fileName |-> "a b/c#d"]), NoData)
    \/ \E d \in FileData : Call("b2", "getFileInfo", FALSE, B2_getFileInfo(Client, d), NoData)
    \/ \E f \in FileIds :
            Call("b2", "deleteFileVersion", FALSE,
                 B2_deleteFileVersion(Client, [fileId |-> f, fileName |-> "a"]), NoData)
    \/ \E d \in DownloadAuthData :
            Call("b2", "getDownloadAuthorization", FALSE, B2_getDownloadAuthorization(Client, d), NoData)
    \/ \E n \in BucketNames, f \in FileNames :
            Call("b2", "downloadFileByName", FALSE,
                 B2_downloadFileByName(Client, [bucketName |-> n, fileName |-> f, responseType |-> "arraybuffer"]),
                 NoData)
    \/ \E f \in FileIds :
            Call("b2", "downloadFileById", FALSE,
                 B2_downloadFileById(Client, [fileId |-> f, responseType |-> "json"]), NoData)
    \/ \E o \in {[bucketId |-> "b1", fileName |-> "a"],
                 [bucketId |-> "b2", fileName |-> "a b/c#d", contentType |-> "text/plain"]} :
            Call("b2", "startLargeFile", FALSE, B2_startLargeFile(Client, o), NoData)
    \/ \E d \in FileData : Call("b2", "getUploadPartUrl", FALSE, B2_getUploadPartUrl(Client, d), NoData)
    \/ \E o \in WithTicket(Tickets, PartOpts) :
            Call("b2", "uploadPart", FALSE, B2_uploadPart(Client, o), NoData)
    \/ \E f \in FileIds :
            Call("b2", "finishLargeFile", FALSE,
                 B2_finishLargeFile(Client, [fileId |-> f, partSha1Array |-> <<sha1(<<>>)>>]), NoData)
    \/ \E d \in FileData : Call("b2", "cancelLargeFile", FALSE, B2_cancelLargeFile(Client, d), NoData)
    \/ \E res \in Responses(opCall, {"ECONNRESET"}) : OpResponse(res) /\ UNCHANGED envVars

Next == SessionNext

Spec == Init /\ [][Next]_vars

-----------------------------------------------------------------------------
(* FacadeSpec: a caller that uses a B2Bucket.                              *)

\* what a caller passes to authorize: the bucket the key is restricted to,
\* another bucket, a bucket with a key of no restriction, and the empty id
\* with the key for which the server reports an empty id
FacadeAuthorizeOpts ==
    {[accountId |-> "keyId1", applicationKey |-> "K1", bucketId |-> "b1"],
     [accountId |-> "keyId1", applicationKey |-> "K1", bucketId |-> "b2"],
     [accountId |-> "keyId2", applicationKey |-> "K2", bucketId |-> "b2"],
     [accountId |-> "keyId3", applicationKey |-> "K3", bucketId |-> ""]}

NoOpts == <<>>
FacadeListOpts == {NoOpts, [bucketId |-> "b2"]}
FacadeUploadOpts == {o \in UploadOpts : o.data = <<>> /\ o.hash # ""}
FacadePartOpts == {o \in PartOpts : o.partNumber = 1 /\ o.data = <<>>}
FirstTicket == {t \in Tickets : t.authorizationToken = "upload-token-1"}

\* the caller of a B2Bucket awaits one authorize at a time
FacadeNext ==
    \/ \E o \in FacadeAuthorizeOpts :
            /\ authCalls = EmptyBag
            /\ B2Bucket_authorize(o.accountId, o.applicationKey, o.bucketId) /\ UNCHANGED envVars
    \/ \E c \in BagToSet(authCalls) : \E res \in AuthorizeResponses(c, {"ECONNRESET"}) :
            B2Bucket_authorize_response(c, res) /\ UNCHANGED envVars
    \/ \E o \in FacadeUploadOpts : Call("bucket", "upload", TRUE, B2Bucket_getUploadUrl, o)
    \/ Call("bucket", "getUploadUrl", FALSE, B2Bucket_getUploadUrl, NoData)
    \/ \E o \in WithTicket(FirstTicket, FacadeUploadOpts) :
            Call("bucket", "uploadFile", FALSE, B2Bucket_uploadFile(o), NoData)
    \/ \E o \in FacadeListOpts : Call("bucket", "listFileNames", FALSE, B2Bucket_listFileNames(o), NoData)
    \/ \E o \in FacadeListOpts : Call("bucket", "listFileVersions", FALSE, B2Bucket_listFileVersions(o), NoData)
    \/ Call("bucket", "hideFile", FALSE, B2Bucket_hideFile([fileName |-> "a b/c#d"]), NoData)
    \/ Call("bucket", "getFileInfo", FALSE, B2Bucket_getFileInfo([fileId |-> "4_z1_f1"]), NoData)
    \/ Call("bucket", "deleteFileVersion", FALSE,
            B2Bucket_deleteFileVersion([fileId |-> "4_z1_f1", fileName |-> "a"]), NoData)
    \/ Call("bucket", "getDownloadAuthorization", FALSE,
            B2Bucket_getDownloadAuthorization([fileNamePrefix |-> "pets/", validDurationInSeconds |-> 604800]),
            NoData)
    \/ \E n \in BucketNames :
            Call("bucket", "downloadFileByName", FALSE,
                 B2Bucket_downloadFileByName([bucketName |-> n, fileName |-> <<"a">>, responseType |-> "arraybuffer"]),
                 NoData)
    \/ Call("bucket", "downloadFileById", FALSE,
            B2Bucket_downloadFileById([fileId |-> "4_z1_f1", responseType |-> "json"]), NoData)
    \/ Call("bucket", "startLargeFile", FALSE, B2Bucket_startLargeFile([fileName |-> "a"]), NoData)
    \/ Call("bucket", "getUploadPartUrl", FALSE, B2Bucket_getUploadPartUrl([fileId |-> "4_z1_f1"]), NoData)
    \/ \E o \in WithTicket(FirstTicket, FacadePartOpts) :
            Call("bucket", "uploadPart", FALSE, B2Bucket_uploadPart(o), NoData)
    \/ Call("bucket", "finishLargeFile", FALSE,
            B2Bucket_finishLargeFile([fileId |-> "4_z1_f1", partSha1Array |-> <<sha1(<<>>)>>]), NoData)
    \/ Call("bucket", "cancelLargeFile", FALSE, B2Bucket_cancelLargeFile([fileId |-> "4_z1_f1"]), NoData)
    \/ \E res \in Responses(opCall, {"ECONNRESET"}) : OpResponse(res) /\ UNCHANGED envVars

FacadeSpec == Init /\ [][FacadeNext]_vars

-----------------------------------------------------------------------------
(* ErrSpec: a caller that uses a B2 and a B2Bucket and awaits every call   *)
(* before it makes the next, against a server that may fail any request.   *)

Quiet == authCalls = EmptyBag /\ opCall.status # "pending"

\* a call made by the caller that awaits every call
Awaited(via, op, isAsync, result, opts) == Quiet /\ Call(via, op, isAsync, result, opts)

OneTicket == CHOOSE t \in Tickets : t.authorizationToken = "upload-token-1"
OneUpload == [filename |-> <<"a">>, data |-> <<97>>, mime |-> Undefined, hash |-> Undefined]
OneTicketUpload ==
    Spread([uploadUrl |-> OneTicket.uploadUrl, uploadAuthToken |-> OneTicket.authorizationToken], OneUpload)
OneTicketPart ==
    [uploadUrl |-> OneTicket.uploadUrl, uploadAuthToken |-> OneTicket.authorizationToken,
     partNumber |-> 1, data |-> <<97>>]
OneFile == [fileId |-> "4_z1_f1"]

ErrNext ==
    \/ Quiet /\ B2_authorize(Client, "keyId1", "K1") /\ UNCHANGED envVars
    \/ \E c \in BagToSet(authCalls) : \E res \in AuthorizeResponses(c, Errors) :
            B2_authorize_response(c, res) /\ UNCHANGED envVars
    \/ Quiet /\ B2Bucket_authorize("keyId1", "K1", "b1") /\ UNCHANGED envVars
    \/ \E c \in BagToSet(authCalls) : \E res \in AuthorizeResponses(c, Errors) :
            B2Bucket_authorize_response(c, res) /\ UNCHANGED envVars
    \/ Awaited("b2", "createBucket", FALSE, B2_createBucket(Client, "bucket-one", "allPrivate"), NoData)
    \/ Awaited("b2", "deleteBucket", FALSE, B2_deleteBucket(Client, "b1"), NoData)
    \/ Awaited("b2", "listBuckets", FALSE, B2_listBuckets(Client), NoData)
    \/ Awaited("b2", "updateBucket", FALSE, B2_updateBucket(Client, "b1", "allPublic"), NoData)
    \/ Awaited("b2", "getUploadUrl", FALSE, B2_getUploadUrl(Client, [bucketId |-> "b1"]), NoData)
    \/ Awaited("b2", "uploadFile", FALSE, B2_uploadFile(Client, OneTicketUpload), NoData)
    \/ Awaited("b2", "listFileNames", FALSE, B2_listFileNames(Client, [bucketId |-> "b1"]), NoData)
    \/ Awaited("b2", "listFileVersions", FALSE, B2_listFileVersions(Client, [bucketId |-> "b1"]), NoData)
    \/ Awaited("b2", "hideFile", FALSE, B2_hideFile(Client, [bucketId |-> "b1", fileName |-> "a"]), NoData)
    \/ Awaited("b2", "getFileInfo", FALSE, B2_getFileInfo(Client, OneFile), NoData)
    \/ Awaited("b2", "deleteFileVersion", FALSE,
               B2_deleteFileVersion(Client, [fileId |-> "4_z1_f1", fileName |-> "a"]), NoData)
    \/ Awaited("b2", "getDownloadAuthorization", FALSE,
               B2_getDownloadAuthorization(Client, [bucketId |-> "b1", fileNamePrefix |-> "pets/",
                                                    validDurationInSeconds |-> 604800]), NoData)
    \/ Awaited("b2", "downloadFileByName", FALSE,
               B2_downloadFileByName(Client, [bucketName |-> "bucket-one", fileName |-> <<"a">>,
                                              responseType |-> "arraybuffer"]), NoData)
    \/ Awaited("b2", "downloadFileById", FALSE,
               B2_downloadFileById(Client, [fileId |-> "4_z1_f1", responseType |-> "json"]), NoData)
    \/ Awaited("b2", "startLargeFile", FALSE,
               B2_startLargeFile(Client, [bucketId |-> "b1", fileName |-> "a"]), NoData)
    \/ Awaited("b2", "getUploadPartUrl", FALSE, B2_getUploadPartUrl(Client, OneFile), NoData)
    \/ Awaited("b2", "uploadPart", FALSE, B2_uploadPart(Client, OneTicketPart), NoData)
    \/ Awaited("b2", "finishLargeFile", FALSE,
               B2_finishLargeFile(Client, [fileId |-> "4_z1_f1", partSha1Array |-> <<sha1(<<97>>)>>]), NoData)
    \/ Awaited("b2", "cancelLargeFile", FALSE, B2_cancelLargeFile(Client, OneFile), NoData)
    \/ Awaited("bucket", "upload", TRUE, B2Bucket_getUploadUrl, OneUpload)
    \/ Awaited("bucket", "getUploadUrl", FALSE, B2Bucket_getUploadUrl, NoData)
    \/ Awaited("bucket", "uploadFile", FALSE, B2Bucket_uploadFile(OneTicketUpload), NoData)
    \/ \E res \in Responses(opCall, Errors) : OpResponse(res) /\ UNCHANGED envVars

ErrSpec == Init /\ [][ErrNext]_vars

-----------------------------------------------------------------------------
(* FlowSpec: a caller that uploads one large file in parts, awaiting every *)
(* call, against a server that checks every request of the sequence.       *)

LargeFileId == "4_zlarge_f1"
PartTicket ==
    [fileId |-> LargeFileId,
     uploadUrl |-> "https://pod-000-1.backblaze.com/b2api/v1/b2_upload_part/4_zlarge_f1/1",
     authorizationToken |-> "part-token-1"]

ServerInit ==
    [state |-> "ready", fileName |-> Undefined, contentType |-> Undefined,
     parts |-> [i \in 1 .. MaxParts |-> Undefined], refused |-> FALSE]

FlowInit ==
    /\ ClientInit
    /\ srv = ServerInit
    /\ flow = [pc |-> "init", n |-> 0, k |-> 0, payloads |-> <<>>, fileId |-> Undefined,
               ticket |-> NoData, sha1s |-> <<>>]

Refuses(s) == [srv |-> [s EXCEPT !.refused = TRUE], res |-> ErrorResponse("Request failed with status code 400")]
Accepts(s, data) == [srv |-> s, res |-> OkResponse(data)]

\* the request comes with the session the server granted to the second key
OnGrantedSession(r) ==
    /\ r.transport = "instance"
    /\ r.baseURL = "https://api002.backblazeb2.com/b2api/v1"
    /\ r.headers.Authorization = "session-token-2"

\* b2_finish_large_file: as many checksums as parts stored, each the checksum
\* of the part of its position
PartsMatch(s, array) ==
    /\ Len(array) \in 1 .. MaxParts
    /\ \A i \in 1 .. MaxParts :
          IF i <= Len(array) THEN s.parts[i] = array[i] ELSE s.parts[i] = Undefined

\* what the server does with a request: its next state and its response
ServerAnswer(s, r) ==
    CASE r.method = "POST" /\ r.url = "/b2_start_large_file" ->
            IF OnGrantedSession(r) /\ s.state = "ready" /\ r.data.bucketId \in BucketIds
            THEN Accepts([s EXCEPT !.state = "started", !.fileName = r.data.fileName,
                                   !.contentType = r.data.contentType],
                         [fileId |-> LargeFileId, bucketId |-> r.data.bucketId,
                          fileName |-> r.data.fileName, contentType |-> r.data.contentType])
            ELSE Refuses(s)
      [] r.method = "POST" /\ r.url = "/b2_get_upload_part_url" ->
            IF OnGrantedSession(r) /\ s.state = "started" /\ r.data.fileId = LargeFileId
            THEN Accepts(s, PartTicket)
            ELSE Refuses(s)
      [] r.method = "POST" /\ r.url = PartTicket.uploadUrl ->
            IF /\ r.transport = "global" /\ s.state = "started"
               /\ r.headers.Authorization = PartTicket.authorizationToken
               /\ r.headers.XBzPartNumber \in 1 .. MaxParts
               /\ r.headers.ContentLength = Len(r.data)
               /\ r.headers.XBzContentSha1 = Sha1Digest(r.data)
            THEN Accepts([s EXCEPT !.parts[r.headers.XBzPartNumber] = r.headers.XBzContentSha1],
                         [fileId |-> LargeFileId, partNumber |-> r.headers.XBzPartNumber,
                          contentLength |-> Len(r.data), contentSha1 |-> r.headers.XBzContentSha1])
            ELSE Refuses(s)
      [] r.method = "POST" /\ r.url = "/b2_finish_large_file" ->
            IF /\ OnGrantedSession(r) /\ s.state = "started" /\ r.data.fileId = LargeFileId
               /\ PartsMatch(s, r.data.partSha1Array)
            THEN Accepts([s EXCEPT !.state = "finished"],
                         [fileId |-> LargeFileId, fileName |-> s.fileName, action |-> "upload"])
            ELSE Refuses(s)
      [] OTHER -> Refuses(s)

FlowAuthorize ==
    /\ flow.pc = "init"
    /\ B2_authorize(Client, "keyId2", "K2")
    /\ flow' = [flow EXCEPT !.pc = "authorizing"]
    /\ UNCHANGED srv

ServerAuthorizes ==
    \E c \in BagToSet(authCalls) :
        /\ B2_authorize_response(c, OkResponse(AuthorizationResponse(c.req.headers.Authorization)))
        /\ UNCHANGED envVars

FlowStart ==
    /\ flow.pc = "authorizing" /\ authResult.status = "resolved"
    /\ \E n \in 1 .. MaxParts :
       \E o \in {[bucketId |-> "b1", fileName |-> "a"],
                 [bucketId |-> "b1", fileName |-> "a b/c#d", contentType |-> "text/plain"]} :
          /\ Invoke("b2", "startLargeFile", FALSE, B2_startLargeFile(Client, o), NoData)
          /\ flow' = [flow EXCEPT !.pc = "starting", !.n = n]
    /\ UNCHANGED srv

ServerResponds ==
    /\ opCall.status = "pending"
    /\ LET answer == ServerAnswer(srv, opCall.req)
       IN OpResponse(answer.res) /\ srv' = answer.srv
    /\ UNCHANGED flow

FlowGetUploadPartUrl ==
    /\ flow.pc = "starting" /\ opCall.status = "resolved"
    /\ Invoke("b2", "getUploadPartUrl", FALSE,
              B2_getUploadPartUrl(Client, [fileId |-> opCall.value.fileId]), NoData)
    /\ flow' = [flow EXCEPT !.pc = "ticketing", !.fileId = opCall.value.fileId]
    /\ UNCHANGED srv

FlowUploadPart ==
    /\ flow.pc \in {"ticketing", "uploading"} /\ opCall.status = "resolved"
    /\ flow.k < flow.n
    /\ \E d \in Payloads :
          LET ticket == IF flow.pc = "ticketing" THEN opCall.value ELSE flow.ticket
              sha1s == IF flow.pc = "uploading" THEN Append(flow.sha1s, opCall.value.contentSha1)
                       ELSE flow.sha1s
          IN /\ Invoke("b2", "uploadPart", FALSE,
                       B2_uploadPart(Client, [uploadUrl |-> ticket.uploadUrl,
                                              uploadAuthToken |-> ticket.authorizationToken,
                                              partNumber |-> flow.k + 1, data |-> d]), NoData)
             /\ flow' = [flow EXCEPT !.pc = "uploading", !.k = @ + 1, !.ticket = ticket,
                                     !.payloads = Append(@, d), !.sha1s = sha1s]
    /\ UNCHANGED srv

FlowFinish ==
    /\ flow.pc = "uploading" /\ opCall.status = "resolved"
    /\ flow.k = flow.n
    /\ LET sha1s == Append(flow.sha1s, opCall.value.contentSha1)
       IN /\ Invoke("b2", "finishLargeFile", FALSE,
                    B2_finishLargeFile(Client, [fileId |-> flow.fileId, partSha1Array |-> sha1s]), NoData)
          /\ flow' = [flow EXCEPT !.pc = "finishing", !.sha1s = sha1s]
    /\ UNCHANGED srv

FlowDone ==
    /\ flow.pc = "finishing" /\ opCall.status = "resolved"
    /\ flow' = [flow EXCEPT !.pc = "done"]
    /\ UNCHANGED <<clientVars, srv>>

FlowNext ==
    \/ FlowAuthorize
    \/ ServerAuthorizes
    \/ FlowStart
    \/ FlowGetUploadPartUrl
    \/ FlowUploadPart
    \/ FlowFinish
    \/ FlowDone
    \/ ServerResponds

FlowSpec == FlowInit /\ [][FlowNext]_vars

-----------------------------------------------------------------------------
(* Properties of the B2 used directly (Spec).                              *)

UploadOps == {"uploadFile", "uploadPart"}

\* a call has just been made and has sent a request
NewRequest == opCall'.status = "pending" /\ (opCall.status # "pending" \/ opCall'.nreq # opCall.nreq)

\* C2, as stated: every operation of a B2 whose authorize has not completed
\* successfully fails with a TypeError and sends no request.
C2_EveryOperationBeforeAuthorizeFails ==
    (opCall.via = "b2" /\ opCall.status # "idle" /\ ~opCall.authed)
        => (opCall.status = "threw" /\ opCall.error = "TypeError" /\ opCall.nreq = 0)

\* C2, amended: every operation but uploadFile and uploadPart, called on a B2
\* whose authorize has not completed successfully, throws a TypeError and
\* sends no request; uploadFile and uploadPart do not read the session and
\* send their request all the same.
C2_SessionOperationBeforeAuthorizeFails ==
    (opCall.via = "b2" /\ opCall.status # "idle" /\ ~opCall.authed)
        => IF opCall.op \in UploadOps
           THEN opCall.status # "threw" /\ opCall.nreq = 1
           ELSE /\ opCall.status = "threw" /\ opCall.error = "TypeError"
                /\ opCall.nreq = 0 /\ opCall.req = NoRequest

\* an operation was called while the first authorize was still awaiting its
\* response, and threw
C2_Witness ==
    /\ opCall.via = "b2" /\ opCall.op = "getUploadUrl" /\ opCall.status = "threw"
    /\ ~opCall.authed /\ authCalls # EmptyBag /\ ~heap[Client].axios.created

\* C3: a request of uploadFile or uploadPart goes on the global transport to
\* the ticket's uploadUrl with the ticket's token as Authorization, with no
\* base URL, whatever session the B2 holds; the request of every other
\* operation goes on the session's transport with the base URL and the token
\* the server granted.
C3_TransportOfEveryRequest ==
    [][NewRequest =>
        LET c == opCall'
            r == opCall'.req
        IN IF c.op \in UploadOps
           THEN /\ r.transport = "global" /\ r.baseURL = Undefined
                /\ r.url = c.args.uploadUrl
                /\ r.headers.Authorization = c.args.uploadAuthToken
                /\ r.headers.Authorization # heap[c.self].axios.headers.Authorization
           ELSE /\ r.transport = "instance"
                /\ granted[c.self].kind = "call"
                /\ r.baseURL = granted[c.self].data.apiUrl \o "/b2api/v1"
                /\ r.headers = [Authorization |-> granted[c.self].data.authorizationToken]]_vars

\* an upload is in flight, sent by a B2 that holds a session
C3_Witness ==
    /\ opCall.via = "b2" /\ opCall.op = "uploadFile" /\ opCall.status = "pending"
    /\ opCall.authed /\ opCall.req.headers.Authorization = "upload-token-2"

\* the session an authorize call establishes
SessionOf(g) ==
    IF g.kind = "none"
    THEN [axios |-> NoAxios, accountId |-> Undefined, downloadUrl |-> Undefined]
    ELSE [axios |-> [created |-> TRUE, baseURL |-> g.data.apiUrl \o "/b2api/v1",
                     headers |-> [Authorization |-> g.data.authorizationToken]],
          accountId |-> g.accountId,
          downloadUrl |-> g.data.downloadUrl]

\* C6: the session a B2 holds is, field for field, the session of the one
\* authorize call whose successful response was processed last.
C6_SessionIsOneAuthorization ==
    \A r \in Refs : heap[r] = SessionOf(granted[r])

\* a second authorization replaced the session while a third call was awaiting
C6_Witness ==
    /\ authResult.via = "b2" /\ authResult.status = "resolved" /\ authResult.hadSession
    /\ heap[Client].accountId = "keyId2"
    /\ \E c \in BagToSet(authCalls) : c.accountId = "keyId1"

\* C7, as stated: the checksum header is the caller's hash whenever one is
\* supplied, and the SHA-1 of the payload whenever none is.
C7_ChecksumHeaderForEveryHash ==
    (opCall.op = "uploadFile" /\ opCall.status = "pending")
        => opCall.req.headers.XBzContentSha1 =
              IF opCall.args.hash # Undefined THEN opCall.args.hash ELSE Sha1Digest(opCall.args.data)

\* C7, amended: the checksum header is the caller's hash whenever a non-empty
\* hash is supplied, and the SHA-1 of the exact payload whenever the hash is
\* left out or empty; the payload sent is the payload passed in.
C7_ChecksumHeader ==
    (opCall.op = "uploadFile" /\ opCall.status = "pending")
        => /\ opCall.req.data = opCall.args.data
           /\ opCall.req.headers.XBzContentSha1 =
                 IF opCall.args.hash \notin {Undefined, ""} THEN opCall.args.hash
                 ELSE Sha1Digest(opCall.args.data)
           /\ (opCall.args.data = <<>> /\ opCall.args.hash = Undefined)
                 => opCall.req.headers.XBzContentSha1 = "da39a3ee5e6b4b0d3255bfef95601890afd80709"

\* an upload of the one byte "a" with an empty hash carries the digest of "a"
C7_Witness ==
    /\ opCall.op = "uploadFile" /\ opCall.status = "pending"
    /\ opCall.args.hash = "" /\ opCall.args.data = <<97>>
    /\ opCall.req.headers.XBzContentSha1 = "86f7e437faa5a7fce15d1ddcb9eaeaea377667b8"

\* C10: the step in which an authorize call of a B2 is rejected leaves the
\* fields of that B2 as they were.
C10_FailedAuthorizeKeepsSession ==
    [][(/\ BagCardinality(authCalls') < BagCardinality(authCalls)
        /\ authResult'.via = "b2" /\ authResult'.status = "rejected")
          => heap'[authResult'.self] = heap[authResult'.self]]_vars

\* an authorize call was rejected on a B2 that held a session, and holds it still
C10_Witness ==
    /\ authResult.via = "b2" /\ authResult.status = "rejected" /\ authResult.hadSession
    /\ authResult.response.kind = "error"
    /\ heap[Client] = SessionOf(granted[Client]) /\ heap[Client].axios.created

-----------------------------------------------------------------------------
(* Properties of the B2Bucket (FacadeSpec).                                *)

\* C1: when the request of a B2Bucket authorize succeeded, the call rejects
\* if the allowed bucket id the server reported is undefined, empty or not
\* the bucketId passed in, and otherwise returns the data of the response.
C1_FacadeAuthorizeChecksAllowedBucket ==
    (authResult.via = "bucket" /\ authResult.response.kind = "ok")
        => LET allowed == authResult.response.data.allowed.bucketId
           IN IF allowed \in {Undefined, ""} \/ allowed # authResult.bucketId
              THEN authResult.status = "rejected" /\ authResult.value = NoData
              ELSE authResult.status = "resolved" /\ authResult.value = authResult.response.data

\* the server reported an empty allowed bucket id to a B2Bucket configured
\* with the empty id, and authorize rejected
C1_Witness ==
    /\ authResult.via = "bucket" /\ authResult.response.kind = "ok"
    /\ authResult.response.data.allowed.bucketId = "" /\ authResult.bucketId = ""
    /\ authResult.status = "rejected"

\* the operations whose request body names a bucket
BucketBodyOps == {"upload", "getUploadUrl", "listFileNames", "listFileVersions", "hideFile",
                  "getDownloadAuthorization", "startLargeFile"}

\* a B2Bucket call is awaiting the response of a request that names a bucket
FacadeBucketRequest ==
    /\ opCall.via = "bucket" /\ opCall.status = "pending"
    /\ \/ opCall.op \in BucketBodyOps /\ opCall.stage = 1
       \/ opCall.op = "downloadFileByName"

\* the bucket the request of the call addresses
AddressedBucket(call) ==
    IF call.op = "downloadFileByName" THEN BucketIdOfName(call.args.bucketName)
    ELSE call.req.data.bucketId

\* C4: the bucket the request of a B2Bucket operation addresses is the
\* bucket the B2Bucket is configured with, whatever the caller passes.
C4_FacadeAddressesConfiguredBucket ==
    FacadeBucketRequest => AddressedBucket(opCall) = opCall.cfgBucket

\* C9: a request of a B2Bucket operation that carries the configured
\* bucketId is sent with the token of a session whose allowed bucket id is
\* that bucketId.
C9_FacadeSessionAllowsConfiguredBucket ==
    (FacadeBucketRequest /\ opCall.op # "downloadFileByName"
        /\ opCall.req.data.bucketId = opCall.cfgBucket)
        => /\ opCall.req.transport = "instance"
           /\ AllowedOfToken(opCall.req.headers.Authorization) = opCall.cfgBucket

-----------------------------------------------------------------------------
(* Properties of errors (ErrSpec).                                         *)

\* the error of a failed request comes back as the error of the call, the
\* data of a successful one as its value, and upload stops at a failed
\* getUploadUrl
ErrorsPropagate ==
    /\ opCall.response.kind = "error"
          => /\ opCall.status = "rejected" /\ opCall.error = opCall.response.error
             /\ opCall.op = "upload" /\ opCall.stage = 1 => opCall.nreq = 1 /\ opCall.calls = 1
    /\ opCall.response.kind = "ok"
          => \/ opCall.status = "resolved" /\ opCall.value = opCall.response.data
             \/ opCall.op = "upload" /\ opCall.stage = 2 /\ opCall.status = "pending"
    /\ authResult.response.kind = "error"
          => authResult.status = "rejected" /\ authResult.error = authResult.response.error
    /\ \A c \in BagToSet(authCalls) : c.nreq = 1

\* C8, as stated: every invocation of an operation of B2 sends exactly one
\* request, and errors propagate.
C8_OneRequestPerInvocation ==
    /\ opCall.nreq = opCall.calls
    /\ ErrorsPropagate

\* the call of an operation of B2 threw before it sent anything
ThrewBeforeSending ==
    opCall.status \in {"threw", "rejected"} /\ opCall.error = "TypeError" /\ opCall.calls > 0

\* C8, amended: an invocation of an operation of B2 sends exactly one
\* request unless it throws the TypeError of a B2 without a session, in
\* which case it sends none; the error of a failed request is the error of
\* the call, nothing is sent after it, and a failed getUploadUrl rejects
\* upload before uploadFile is called.
C8_NoRetryNoSwallow ==
    /\ opCall.nreq = IF ThrewBeforeSending THEN opCall.calls - 1 ELSE opCall.calls
    /\ ThrewBeforeSending => ~opCall.authed /\ opCall.op \notin UploadOps
    /\ ErrorsPropagate

\* upload was rejected with the error of its getUploadUrl, one request sent
C8_Witness ==
    /\ opCall.via = "bucket" /\ opCall.op = "upload" /\ opCall.status = "rejected"
    /\ opCall.stage = 1 /\ opCall.response.kind = "error"
    /\ opCall.error = "Request failed with status code 401" /\ opCall.nreq = 1

-----------------------------------------------------------------------------
(* Properties of the large-file sequence (FlowSpec).                       *)

\* C5: in the sequence startLargeFile, uploadPart 1..N, finishLargeFile the
\* server refuses nothing and no call fails; the request of part k carries
\* the number k, the payload of part k and its SHA-1, the finish request
\* carries the N returned checksums in upload order, and at the end the
\* server holds the file finished with the checksums of the N payloads.
C5_LargeFileFlowAccepted ==
    /\ ~srv.refused
    /\ opCall.status \notin {"rejected", "threw"}
    /\ (opCall.status = "pending" /\ opCall.op = "uploadPart")
          => /\ opCall.req.headers.XBzPartNumber = flow.k
             /\ opCall.req.data = flow.payloads[flow.k]
             /\ opCall.req.headers.XBzContentSha1 = Sha1Digest(flow.payloads[flow.k])
    /\ (opCall.status = "pending" /\ opCall.op = "finishLargeFile")
          => /\ opCall.req.data.partSha1Array = flow.sha1s
             /\ flow.sha1s = [i \in 1 .. flow.n |-> Sha1Digest(flow.payloads[i])]
    /\ flow.pc = "done"
          => /\ srv.state = "finished"
             /\ \A i \in 1 .. MaxParts :
                   srv.parts[i] = IF i <= flow.n THEN Sha1Digest(flow.payloads[i]) ELSE Undefined

\* a file of as many parts as the bound allows, not all alike, is finished
C5_Witness ==
    /\ flow.pc = "done" /\ flow.n = MaxParts /\ srv.state = "finished"
    /\ flow.payloads[1] # flow.payloads[flow.n]
    /\ opCall.op = "finishLargeFile" /\ opCall.status = "resolved"

====
